---- MODULE Spec2Model ----
(***************************************************************************)
(* Model of infrastructure/data_collector.py: DataCollector, its calendar   *)
(* function calculate_candles_between, the single request fetch_candles and *)
(* the windowed loop collect_large_candle_data.                             *)
(*                                                                         *)
(* Time is counted in seconds from an arbitrary midnight.  A date string is *)
(* a record [fmt, t]: fmt "iso" is 'YYYY-MM-DDTHH:MM:SSZ', fmt "date" is    *)
(* 'YYYY-MM-DD', fmt "bad" is text dateutil cannot parse and fmt "none" is  *)
(* Python's None.  A datetime is a record [t, aware]; dateutil returns an   *)
(* aware datetime for a string that ends in Z and a naive one otherwise.    *)
(***************************************************************************)
EXTENDS Integers, Sequences, FiniteSets, TLC

\* ------------------------------------------------------------------ bounds
\* the most candles one response of the transport carries
MaxResp == 2

\* ------------------------------------------------------- program constants
CANDLE_COUNT == 4000

granularity_list == {"M5", "M1", "M30", "M15", "H1", "H4", "D"}

price_list == {"MBA", "B", "A", "M"}

\* ------------------------------------------------------------ Python values
None == [kind |-> "none"]
List(s) == [kind |-> "list", v |-> s]
Int_(n) == [kind |-> "int", v |-> n]
Raise(e, m) == [kind |-> "raise", exc |-> e, msg |-> m]
Pending == [kind |-> "pending"]

NoDate == [fmt |-> "none", t |-> 0]
Iso(t) == [fmt |-> "iso", t |-> t]
Date(t) == [fmt |-> "date", t |-> t]
BadDate == [fmt |-> "bad", t |-> 0]

Minutes(n) == n * 60
Day == 24 * 60 * 60

\* dateutil.parser.parse: TypeError on None, ParserError (a ValueError) on
\* text that is no date, else a datetime that is aware iff the text ends in Z
ParseRaises(s) ==
    IF s.fmt = "none" THEN "TypeError"
    ELSE IF s.fmt = "bad" THEN "ParserError"
    ELSE "no"

Parse(s) == [t |-> s.t, aware |-> s.fmt = "iso"]

\* dt.strftime(d, "%Y-%m-%dT%H:%M:%SZ"): the fields of d followed by a literal Z
Strftime(d) == Iso(d.t)

\* d1 >= d2 on datetimes: TypeError when exactly one of them is aware
Comparable(d1, d2) == d1.aware = d2.aware

\* dt.strptime(s, date_format) succeeds only on text in that format
StrptimeOk(s, date_format) == s.fmt = date_format

\* ------------------------------------------- calculate_candles_between
Supported(granularity) ==
    granularity \in {"M1", "M5", "M30", "H1", "H2", "H4", "D", "W"}

\* the duration table with H2 given the minutes of H1
DeltaMinutesH2AsH1(granularity) ==
    CASE granularity = "M1" -> 1
      [] granularity = "M5" -> 5
      [] granularity = "M30" -> 30
      [] granularity = "H1" -> 60
      [] granularity = "H2" -> 60
      [] granularity = "H4" -> 240
      [] granularity = "D" -> 1440
      [] granularity = "W" -> 10080

DeltaMinutes(granularity) ==
    CASE granularity = "M1" -> 1
      [] granularity = "M5" -> 5
      [] granularity = "M30" -> 30
      [] granularity = "H1" -> 60
      [] granularity = "H2" -> 120
      [] granularity = "H4" -> 240
      [] granularity = "D" -> 1440
      [] granularity = "W" -> 10080

TotalMinutes(t1, t2) == (t2 - t1) \div 60

\* calculate_candles_between with the granularity matched before the range check
CalculateGranularityFirst(from_date, to_date, granularity) ==
    LET date_format == IF from_date.fmt = "iso" THEN "iso" ELSE "date"
    IN  IF from_date.fmt = "none"
        THEN Raise("TypeError", "in None")
        ELSE IF ~StrptimeOk(from_date, date_format) \/ ~StrptimeOk(to_date, date_format)
        THEN Raise("ValueError", "format")
        ELSE IF ~Supported(granularity)
        THEN Raise("ValueError", "granularity")
        ELSE IF from_date.t >= to_date.t
        THEN Raise("ValueError", "range")
        ELSE Int_(TotalMinutes(from_date.t, to_date.t) \div DeltaMinutes(granularity))

\* calculate_candles_between with the range check written dt1 > dt2
CalculateAllowingEqual(from_date, to_date, granularity) ==
    LET date_format == IF from_date.fmt = "iso" THEN "iso" ELSE "date"
    IN  IF from_date.fmt = "none"
        THEN Raise("TypeError", "in None")
        ELSE IF ~StrptimeOk(from_date, date_format) \/ ~StrptimeOk(to_date, date_format)
        THEN Raise("ValueError", "format")
        ELSE IF from_date.t > to_date.t
        THEN Raise("ValueError", "range")
        ELSE IF ~Supported(granularity)
        THEN Raise("ValueError", "granularity")
        ELSE Int_(TotalMinutes(from_date.t, to_date.t) \div DeltaMinutes(granularity))

calculate_candles_between(from_date, to_date, granularity) ==
    LET date_format == IF from_date.fmt = "iso" THEN "iso" ELSE "date"
    IN  IF from_date.fmt = "none"
        THEN Raise("TypeError", "in None")
        ELSE IF ~StrptimeOk(from_date, date_format) \/ ~StrptimeOk(to_date, date_format)
        THEN Raise("ValueError", "format")
        ELSE IF from_date.t >= to_date.t
        THEN Raise("ValueError", "range")
        ELSE IF ~Supported(granularity)
        THEN Raise("ValueError", "granularity")
        ELSE Int_(TotalMinutes(from_date.t, to_date.t) \div DeltaMinutes(granularity))

\* ------------------------------------------------------------ the object
get_instruments_names(tradeable) ==
    IF Len(tradeable) > 0
    THEN List({tradeable[i].name : i \in 1..Len(tradeable)})
    ELSE None

\* ------------------------------------------------------------ fetch_candles
\* the count check written with the upper end included twice
CountUpToOneMore(count) == count \in 1..(CANDLE_COUNT + 1)

\* count in range(1, DataCollector.CANDLE_COUNT + 1)
CountInRange(count) == count \in 1..CANDLE_COUNT

\* the first parameter check that fails, as the exception it raises
FetchCheck(instr, pair_name, start, end, granularity, count, price) ==
    IF instr.kind = "none"
    THEN Raise("TypeError", "instruments")
    ELSE IF pair_name \notin instr.v
    THEN Raise("InvalidFunctionArguments", "pair_name")
    ELSE IF granularity \notin granularity_list
    THEN Raise("InvalidFunctionArguments", "granularity")
    ELSE IF ParseRaises(start) = "TypeError"
    THEN Raise("InvalidFunctionArguments", "dates")
    ELSE IF ParseRaises(start) = "ParserError"
    THEN Raise("ParserError", "start")
    ELSE IF end.fmt # "none" /\ ParseRaises(end) = "ParserError"
    THEN Raise("ParserError", "end")
    ELSE IF price \notin price_list
    THEN Raise("InvalidFunctionArguments", "price")
    ELSE IF ~CountInRange(count)
    THEN Raise("InvalidFunctionArguments", "count")
    ELSE None

\* the request built as if use_count alone chose the count
FetchParamsByFlag(pair_name, start, end, granularity, count, price, use_count) ==
    LET s == Strftime(Parse(start))
        e == IF end.fmt # "none" THEN Strftime(Parse(end)) ELSE NoDate
        base == [pair |-> pair_name, granularity |-> granularity, price |-> price,
                 from |-> s]
    IN  IF use_count
        THEN base @@ [hasCount |-> TRUE, count |-> count, hasTo |-> FALSE, to |-> NoDate]
        ELSE base @@ [hasCount |-> FALSE, count |-> 0, hasTo |-> TRUE, to |-> e]

\* the request sent on the session: the pair is in the URL, the rest in params
FetchParams(pair_name, start, end, granularity, count, price, use_count) ==
    LET s == Strftime(Parse(start))
        e == IF end.fmt # "none" THEN Strftime(Parse(end)) ELSE NoDate
        base == [pair |-> pair_name, granularity |-> granularity, price |-> price,
                 from |-> s]
    IN  IF use_count /\ e.fmt = "none"
        THEN base @@ [hasCount |-> TRUE, count |-> count, hasTo |-> FALSE, to |-> NoDate]
        ELSE base @@ [hasCount |-> FALSE, count |-> 0, hasTo |-> TRUE, to |-> e]

\* what fetch_candles makes of the transport's answer
FetchResult(res) ==
    IF res.kind = "exception"
    THEN Raise("ConnectionError", "session.get")
    ELSE IF ~res.ok
    THEN Raise("RequestError", "not ok")
    ELSE IF ~res.hasCandles
    THEN Raise("NullCandles", "no candles")
    ELSE List(res.candles)

FetchSends(instr, pair_name, start, end, granularity, count, price) ==
    FetchCheck(instr, pair_name, start, end, granularity, count, price) = None

fetch_candles(instr, pair_name, start, end, granularity, count, price, use_count, res) ==
    IF FetchSends(instr, pair_name, start, end, granularity, count, price)
    THEN FetchResult(res)
    ELSE FetchCheck(instr, pair_name, start, end, granularity, count, price)

\* ------------------------------------------------ collect_large_candle_data
\* the parameter checks of collect, as the exception the first failing one raises
CollectCheck(instr, pair, granularity, date_from, date_to, price) ==
    IF instr.kind = "none"
    THEN Raise("TypeError", "instruments")
    ELSE IF pair \notin instr.v
    THEN Raise("InvalidFunctionArguments", "pair")
    ELSE IF granularity \notin granularity_list
    THEN Raise("InvalidFunctionArguments", "granularity")
    ELSE IF ParseRaises(date_from) = "TypeError"
    THEN Raise("InvalidFunctionArguments", "dates")
    ELSE IF ParseRaises(date_from) = "ParserError"
    THEN Raise("ParserError", "date_from")
    ELSE IF ParseRaises(date_to) = "TypeError"
    THEN Raise("InvalidFunctionArguments", "dates")
    ELSE IF ParseRaises(date_to) = "ParserError"
    THEN Raise("ParserError", "date_to")
    ELSE IF price \notin price_list
    THEN Raise("InvalidFunctionArguments", "price")
    ELSE None

\* the exceptions of fetch_candles that get_candles turns into None
Caught == {"InvalidFunctionArguments", "RequestError", "NullCandles"}

\* the subroutine get_candles: the list fetched, None for a caught failure,
\* or the exception it lets through
get_candles(r) ==
    IF r.kind = "raise" /\ r.exc \in Caught THEN None ELSE r

\* candles.extend(x)
ExtendRaises(x) == x.kind = "none"

\* the single-window test written count < CANDLE_COUNT
SingleWindowStrict(n) == n < CANDLE_COUNT

\* count <= DataCollector.CANDLE_COUNT: one fetch is enough
SingleWindow(n) == n <= CANDLE_COUNT

\* the window size without the min: always CANDLE_COUNT
CurrentCountCap(c) == CANDLE_COUNT

\* the loop without its count -= current_count
RemainingUnchanged(c, w) == c

\* count -= current_count
Remaining(c, w) == c - w

\* min(count, CANDLE_COUNT)
CurrentCount(c) == IF c < CANDLE_COUNT THEN c ELSE CANDLE_COUNT

\* the early stop written from_date > to_date
PassedEnd(cursor, end) == cursor.t > end.t

\* from_date >= to_date on comparable datetimes: the early stop of the loop
ReachedEnd(cursor, end) == cursor.t >= end.t

\* the cursor taken from candles[0] instead of candles[-1]
FirstTime(cs) == cs[1].time

\* the cursor after a window: parser.parse(candles[-1]["time"])
LastTime(cs) == cs[Len(cs)].time

\* ------------------------------------------------------------ the transport
Candle(ts) == [time |-> ts]

CandleTimes ==
    {Iso(Minutes(1)), Iso(Minutes(4000))}

CandleLists ==
    UNION {[1..n -> {Candle(ts) : ts \in CandleTimes}] : n \in 0..MaxResp}

Responses ==
    {[kind |-> "exception", ok |-> FALSE, hasCandles |-> FALSE, candles |-> <<>>],
     [kind |-> "http", ok |-> FALSE, hasCandles |-> FALSE, candles |-> <<>>],
     [kind |-> "http", ok |-> TRUE, hasCandles |-> FALSE, candles |-> <<>>]}
    \cup {[kind |-> "http", ok |-> TRUE, hasCandles |-> TRUE, candles |-> cs] :
            cs \in CandleLists}

\* ------------------------------------------------------------------ inputs
Pairs == {"EUR_USD", "XXX_YYY"}

Granularities == granularity_list \cup {"H2", "W", "S5"}

Prices == {"MBA", "X"}

\* the dates collect is called with
DateInputs ==
    {Iso(0), Iso(90), Iso(Minutes(320)), Iso(Minutes(3999)), Iso(Minutes(4000)),
     Iso(Minutes(8000)), Date(3 * Day), BadDate, NoDate}

\* the dates calculate_candles_between is called with
CalcInputs ==
    {Iso(0), Iso(90), Iso(Minutes(3999)), Iso(Minutes(4000)), Date(0), Date(Day),
     Date(7 * Day), BadDate}

Counts == {0, 1, CANDLE_COUNT, CANDLE_COUNT + 1}

TradeableLists == {<< >>, <<[name |-> "EUR_USD"]>>}

\* ------------------------------------------------------------------- state
VARIABLES
    tradeable_instruments,  \* self.tradeable_instruments
    instruments,            \* self.instruments
    det,                    \* the transport answers equal requests equally
    memo,                   \* what a deterministic transport has answered
    prev,                   \* the call before this one and what it gave
    pc,                     \* "idle", "single", "loop" or "done"
    call,                   \* the operation called and its arguments
    from_date,              \* collect's local from_date, the cursor
    to_date,                \* collect's local to_date
    count,                  \* collect's local count
    candles,                \* collect's local candles, the accumulator
    progress,               \* collect's local progress
    fetches,                \* the calls of fetch_candles this call made
    requests,               \* the requests this call sent on the session
    answers,                \* what the transport answered to them, in order
    log,                    \* the lines this call printed for a failure
    ret                     \* what the call returned or raised

vars ==
    <<tradeable_instruments, instruments, det, memo, prev, pc, call,
      from_date, to_date, count, candles, progress, fetches, requests, answers,
      log, ret>>

object == <<tradeable_instruments, instruments, det>>
locals == <<from_date, to_date, count, candles, progress>>

NoCall == [op |-> "none"]
NoPrev == [kind |-> "none"]
NoDatetime == [t |-> 0, aware |-> FALSE]

\* the accumulator kept from one call to the next
StaleCandles == candles

\* the accumulator a collect call starts from
InitialCandles == << >>

Init ==
    /\ tradeable_instruments \in TradeableLists
    /\ instruments = get_instruments_names(tradeable_instruments)
    /\ det \in BOOLEAN
    /\ memo = << >>
    /\ prev = NoPrev
    /\ pc = "idle"
    /\ call = NoCall
    /\ from_date = NoDatetime
    /\ to_date = NoDatetime
    /\ count = 0
    /\ candles = << >>
    /\ progress = 0
    /\ fetches = 0
    /\ requests = << >>
    /\ answers = << >>
    /\ log = << >>
    /\ ret = Pending

\* the transport answers req with res
Answers(req, res) ==
    /\ res \in Responses
    /\ (det /\ req \in DOMAIN memo) => res = memo[req]

Remember(req, res) ==
    IF det /\ req \notin DOMAIN memo THEN memo @@ (req :> res) ELSE memo

\* a second call on the object repeats the first
Repeats(c) == IF prev.kind = "none" THEN TRUE ELSE c = prev.call

Finish(c, r, n, reqs, ans, lines) ==
    /\ pc' = "done"
    /\ call' = c
    /\ ret' = r
    /\ fetches' = n
    /\ requests' = reqs
    /\ answers' = ans
    /\ log' = lines

\* calculate_candles_between called on its own
CalcCall(from_s, to_s, granularity) ==
    LET c == [op |-> "calc", from_date |-> from_s, to_date |-> to_s,
              granularity |-> granularity]
    IN  /\ pc = "idle"
        /\ Repeats(c)
        /\ Finish(c, calculate_candles_between(from_s, to_s, granularity), 0, << >>,
                  << >>, << >>)
        /\ UNCHANGED <<object, memo, prev, locals>>

\* fetch_candles called on its own
FetchCall(pair_name, start, end, granularity, cnt, price, use_count) ==
    LET c == [op |-> "fetch", pair_name |-> pair_name, start |-> start, end |-> end,
              granularity |-> granularity, count |-> cnt, price |-> price,
              use_count |-> use_count]
        req == FetchParams(pair_name, start, end, granularity, cnt, price, use_count)
    IN  /\ pc = "idle"
        /\ Repeats(c)
        /\ IF FetchSends(instruments, pair_name, start, end, granularity, cnt, price)
           THEN \E res \in Responses :
                  /\ Answers(req, res)
                  /\ memo' = Remember(req, res)
                  /\ Finish(c, fetch_candles(instruments, pair_name, start, end,
                                             granularity, cnt, price, use_count, res),
                            1, <<req>>, <<res>>, << >>)
           ELSE /\ memo' = memo
                /\ Finish(c, fetch_candles(instruments, pair_name, start, end,
                                           granularity, cnt, price, use_count,
                                           CHOOSE res \in Responses : TRUE),
                          1, << >>, << >>, << >>)
        /\ UNCHANGED <<object, prev, locals>>

\* collect_large_candle_data up to its first fetch: the parameter checks and
\* the count of candles to ask for
CollectCall(pair, granularity, date_from, date_to, price) ==
    LET c == [op |-> "collect", pair |-> pair, granularity |-> granularity,
              date_from |-> date_from, date_to |-> date_to, price |-> price]
        chk == CollectCheck(instruments, pair, granularity, date_from, date_to, price)
        fd == Parse(date_from)
        td == Parse(date_to)
        n == calculate_candles_between(Strftime(fd), Strftime(td), granularity)
    IN  /\ pc = "idle"
        /\ Repeats(c)
        /\ IF chk # None
           THEN /\ Finish(c, chk, 0, << >>, << >>, << >>)
                /\ UNCHANGED locals
           ELSE IF n.kind = "raise"
           THEN /\ IF n.exc = "ValueError"
                   THEN Finish(c, None, 0, << >>, << >>, <<"Value error">>)
                   ELSE Finish(c, n, 0, << >>, << >>, << >>)
                /\ from_date' = fd
                /\ to_date' = td
                /\ candles' = InitialCandles
                /\ UNCHANGED <<count, progress>>
           ELSE /\ pc' = IF SingleWindow(n.v + 1) THEN "single" ELSE "loop"
                /\ call' = c
                /\ from_date' = fd
                /\ to_date' = td
                /\ candles' = InitialCandles
                /\ count' = n.v + 1
                /\ progress' = 0
                /\ fetches' = 0
                /\ requests' = << >>
                /\ answers' = << >>
                /\ log' = << >>
                /\ ret' = Pending
        /\ UNCHANGED <<object, memo, prev>>

\* the fetch of one window by get_candles: the request, and the line printed
\* when fetch_candles raised one of the caught exceptions
WindowRequest(p_count, start_date) ==
    FetchParams(call.pair, Strftime(start_date), NoDate, call.granularity, p_count,
                call.price, TRUE)

WindowSends(p_count, start_date) ==
    FetchSends(instruments, call.pair, Strftime(start_date), NoDate, call.granularity,
               p_count, call.price)

WindowFetch(p_count, start_date, res) ==
    fetch_candles(instruments, call.pair, Strftime(start_date), NoDate,
                  call.granularity, p_count, call.price, TRUE, res)

Logged(r) ==
    IF r.kind = "raise" /\ r.exc \in Caught THEN Append(log, r.exc) ELSE log

Sent(p_count, start_date) ==
    IF WindowSends(p_count, start_date)
    THEN Append(requests, WindowRequest(p_count, start_date))
    ELSE requests

Answered(p_count, start_date, res) ==
    IF WindowSends(p_count, start_date) THEN Append(answers, res) ELSE answers

\* the branch count <= CANDLE_COUNT: one fetch, then return candles
CollectSingle ==
    /\ pc = "single"
    /\ \E res \in Responses :
         LET f == WindowFetch(count, from_date, res)
             g == get_candles(f)
         IN  /\ WindowSends(count, from_date) =>
                    Answers(WindowRequest(count, from_date), res)
             /\ memo' = IF WindowSends(count, from_date)
                        THEN Remember(WindowRequest(count, from_date), res)
                        ELSE memo
             /\ fetches' = fetches + 1
             /\ requests' = Sent(count, from_date)
             /\ answers' = Answered(count, from_date, res)
             /\ log' = Logged(f)
             /\ pc' = "done"
             /\ IF g.kind = "raise"
                THEN ret' = g /\ candles' = candles
                ELSE IF ExtendRaises(g)
                THEN ret' = Raise("TypeError", "extend") /\ candles' = candles
                ELSE /\ candles' = candles \o g.v
                     /\ ret' = List(candles')
    /\ UNCHANGED <<object, prev, call, from_date, to_date, count, progress>>

\* one turn of the loop while count > 0
CollectWindow ==
    /\ pc = "loop"
    /\ count > 0
    /\ \E res \in Responses :
         LET current_count == CurrentCount(count)
             f == WindowFetch(current_count, from_date, res)
             g == get_candles(f)
             acc == candles \o g.v
             cursor == Parse(LastTime(acc))
         IN  /\ WindowSends(current_count, from_date) =>
                    Answers(WindowRequest(current_count, from_date), res)
             /\ memo' = IF WindowSends(current_count, from_date)
                        THEN Remember(WindowRequest(current_count, from_date), res)
                        ELSE memo
             /\ fetches' = fetches + 1
             /\ requests' = Sent(current_count, from_date)
             /\ answers' = Answered(current_count, from_date, res)
             /\ log' = Logged(f)
             /\ IF g.kind = "raise"
                THEN /\ ret' = g
                     /\ pc' = "done"
                     /\ UNCHANGED <<candles, count, from_date, progress>>
                ELSE IF ExtendRaises(g)
                THEN /\ ret' = Raise("TypeError", "extend")
                     /\ pc' = "done"
                     /\ UNCHANGED <<candles, count, from_date, progress>>
                ELSE /\ candles' = acc
                     /\ count' = Remaining(count, current_count)
                     /\ IF Len(acc) = 0
                        THEN /\ ret' = Raise("IndexError", "candles[-1]")
                             /\ pc' = "done"
                             /\ UNCHANGED <<from_date, progress>>
                        ELSE IF ParseRaises(LastTime(acc)) # "no"
                        THEN /\ ret' = Raise(ParseRaises(LastTime(acc)), "time")
                             /\ pc' = "done"
                             /\ UNCHANGED <<from_date, progress>>
                        ELSE /\ from_date' = cursor
                             /\ progress' = progress + Len(acc)
                             /\ IF ~Comparable(cursor, to_date)
                                THEN ret' = Raise("TypeError", "compare") /\ pc' = "done"
                                ELSE IF ReachedEnd(cursor, to_date) \/ count' <= 0
                                THEN ret' = List(acc) /\ pc' = "done"
                                ELSE ret' = ret /\ pc' = "loop"
    /\ UNCHANGED <<object, prev, call, to_date>>

\* the caller calls the same operation a second time on the same object
Again ==
    /\ pc = "done"
    /\ det
    /\ prev = NoPrev
    /\ prev' = [kind |-> "run", call |-> call, ret |-> ret, fetches |-> fetches,
                requests |-> requests, answers |-> answers, log |-> log]
    /\ pc' = "idle"
    /\ call' = NoCall
    /\ ret' = Pending
    /\ fetches' = 0
    /\ requests' = << >>
    /\ answers' = << >>
    /\ log' = << >>
    /\ UNCHANGED <<object, memo, locals>>

Calc ==
    /\ pc = "idle"
    /\ IF prev.kind = "none"
       THEN \E f \in CalcInputs, t \in CalcInputs, g \in Granularities :
               CalcCall(f, t, g)
       ELSE /\ prev.call.op = "calc"
            /\ CalcCall(prev.call.from_date, prev.call.to_date, prev.call.granularity)

Fetch ==
    /\ pc = "idle"
    /\ IF prev.kind = "none"
       THEN \E p \in Pairs, s \in {Iso(0), BadDate, NoDate},
               e \in {NoDate, Iso(90), BadDate}, g \in {"M1", "M15", "H2"},
               c \in Counts, pr \in Prices, u \in BOOLEAN :
               FetchCall(p, s, e, g, c, pr, u)
       ELSE /\ prev.call.op = "fetch"
            /\ FetchCall(prev.call.pair_name, prev.call.start, prev.call.end,
                         prev.call.granularity, prev.call.count, prev.call.price,
                         prev.call.use_count)

Collect ==
    /\ pc = "idle"
    /\ IF prev.kind = "none"
       THEN \E p \in Pairs, g \in Granularities, f \in DateInputs, t \in DateInputs,
               pr \in Prices :
               CollectCall(p, g, f, t, pr)
       ELSE /\ prev.call.op = "collect"
            /\ CollectCall(prev.call.pair, prev.call.granularity, prev.call.date_from,
                           prev.call.date_to, prev.call.price)

Next == Calc \/ Fetch \/ Collect \/ CollectSingle \/ CollectWindow \/ Again

Spec == Init /\ [][Next]_vars

\* ------------------------------------------------------------ the claims
IsCollect == call.op = "collect"
IsFetch == call.op = "fetch"
IsCalc == call.op = "calc"
Done == pc = "done"

TimeOf(c) == Parse(c.time).t

NonDecreasing(cs) ==
    \A i \in 1..(Len(cs) - 1) : TimeOf(cs[i]) <= TimeOf(cs[i + 1])

\* the transport answered with a candle list
Succeeded(res) == res.kind = "http" /\ res.ok /\ res.hasCandles

\* the transport answered with a failure that fetch_candles reports as
\* RequestError or NullCandles
Failed(res) == res.kind = "http" /\ ~(res.ok /\ res.hasCandles)

\* answer i is in ascending order and holds no candle earlier than the start
\* its request asked for
Behaved(i) ==
    Succeeded(answers[i]) =>
        /\ NonDecreasing(answers[i].candles)
        /\ \A j \in 1..Len(answers[i].candles) :
              TimeOf(answers[i].candles[j]) >= requests[i].from.t

AllBehaved == \A i \in 1..Len(answers) : Behaved(i)

\* the candles of the first k answers, one after the other
RECURSIVE Gathered(_)
Gathered(k) == IF k = 0 THEN << >> ELSE Gathered(k - 1) \o answers[k].candles

\* the arguments of the collect call pass its parameter checks
ValidArgs ==
    /\ instruments.kind = "list"
    /\ call.pair \in instruments.v
    /\ call.granularity \in {"M1", "M5", "M15", "M30", "H1", "H4", "D"}
    /\ call.date_from.fmt \in {"iso", "date"}
    /\ call.date_to.fmt \in {"iso", "date"}
    /\ call.price \in {"MBA", "B", "A", "M"}

CalendarSet == {"M1", "M5", "M30", "H1", "H2", "H4", "D", "W"}

Duration(g) ==
    CASE g = "M1" -> 1 [] g = "M5" -> 5 [] g = "M30" -> 30 [] g = "H1" -> 60
      [] g = "H2" -> 120 [] g = "H4" -> 240 [] g = "D" -> 1440 [] g = "W" -> 10080

\* the count collect asks for: the whole candles between the dates, plus one
TotalCount ==
    ((call.date_to.t - call.date_from.t) \div 60) \div Duration(call.granularity) + 1

\* a collect call whose count can be computed
Countable ==
    /\ IsCollect
    /\ ValidArgs
    /\ call.date_from.t < call.date_to.t
    /\ call.granularity \in CalendarSet

\* C1: a collect run in which every window's fetch fails returns an empty
\* series, raises nothing, and logs one failure per attempted window.
C1_AllWindowsFail ==
    (/\ IsCollect
     /\ Done
     /\ fetches >= 1
     /\ Len(answers) = fetches
     /\ \A i \in 1..Len(answers) : Failed(answers[i]))
    => (ret = List(<< >>) /\ Len(log) = fetches)

\* C2: the series collect returns has non-decreasing timestamps from end to
\* end, whenever every answer was ascending and held no candle earlier than
\* the start its request asked for.
C2_NonDecreasing ==
    (IsCollect /\ ret.kind = "list" /\ AllBehaved) => NonDecreasing(ret.v)

C2_Witness ==
    /\ IsCollect
    /\ ret.kind = "list"
    /\ AllBehaved
    /\ Len(answers) >= 2
    /\ Len(answers[2].candles) >= 1
    /\ Len(ret.v) >= 3

\* C3: when the transport returns the candles at or after the start asked
\* for, the first candle a window appends never has the timestamp of the last
\* candle already gathered.
C3_NoSeamDuplicate ==
    (IsCollect /\ AllBehaved) =>
        \A k \in 1..(Len(answers) - 1) :
            (Len(Gathered(k)) >= 1 /\ Len(answers[k + 1].candles) >= 1) =>
                answers[k + 1].candles[1].time # Gathered(k)[Len(Gathered(k))].time

\* C4: with arguments that pass the checks, when the count cannot be computed
\* (from >= to, or a granularity the calendar lacks) collect returns None,
\* calls no fetch and raises nothing.
C4_CountFailureReturnsNone ==
    (/\ IsCollect
     /\ Done
     /\ ValidArgs
     /\ \/ call.date_from.t >= call.date_to.t
        \/ call.granularity \notin CalendarSet)
    => (ret = None /\ fetches = 0 /\ requests = << >>)

C4_Witness ==
    /\ IsCollect
    /\ Done
    /\ ValidArgs
    /\ call.date_from.t = call.date_to.t
    /\ call.granularity \in CalendarSet
    /\ ret = None
    /\ fetches = 0

\* C5: when the count is at most CANDLE_COUNT, collect makes exactly one
\* fetch, from from_date with the count and no end date, and returns exactly
\* the candle list of that fetch.
C5_SingleFetch ==
    (Countable /\ Done /\ TotalCount <= CANDLE_COUNT) =>
        /\ fetches = 1
        /\ requests = <<[pair |-> call.pair, granularity |-> call.granularity,
                         price |-> call.price, from |-> Iso(call.date_from.t),
                         hasCount |-> TRUE, count |-> TotalCount,
                         hasTo |-> FALSE, to |-> NoDate]>>
        /\ Len(answers) = 1
        /\ Succeeded(answers[1]) => ret = List(answers[1].candles)
        /\ ret.kind = "list" => Succeeded(answers[1])

C5_Witness ==
    /\ Countable
    /\ Done
    /\ TotalCount = CANDLE_COUNT
    /\ fetches = 1
    /\ ret.kind = "list"
    /\ Len(ret.v) = MaxResp

\* the last candle of the first answer
FirstLast == answers[1].candles[Len(answers[1].candles)]

\* the first window ended before to_date: it gave at least one candle, and
\* the last one is comparable with to_date and earlier
FirstWindowBeforeEnd ==
    /\ Len(answers) >= 1
    /\ Succeeded(answers[1])
    /\ Len(answers[1].candles) >= 1
    /\ Parse(FirstLast.time).aware = Parse(call.date_to).aware
    /\ TimeOf(FirstLast) < call.date_to.t

C7_Deterministic ==
    (IsCollect /\ Done /\ prev.kind = "run") =>
        /\ call = prev.call
        /\ requests = prev.requests
        /\ ret = prev.ret

C7_Witness ==
    /\ IsCollect
    /\ Done
    /\ prev.kind = "run"
    /\ Len(requests) >= 2
    /\ ret.kind = "list"
    /\ Len(ret.v) >= 2

\* the two dates of a calculate_candles_between call are in one format
SameFormat ==
    /\ call.from_date.fmt \in {"iso", "date"}
    /\ call.to_date.fmt = call.from_date.fmt

\* C8: for a supported granularity and from < to, calculate_candles_between
\* returns the whole minutes between the dates divided by the minutes of the
\* granularity, rounded down; 2020-01-01 to 2020-01-02 at H1 gives 24.
C8_FloorOfMinutes ==
    (/\ IsCalc
     /\ Done
     /\ SameFormat
     /\ call.from_date.t < call.to_date.t
     /\ call.granularity \in CalendarSet)
    => /\ ret.kind = "int"
       /\ ret.v >= 0
       /\ ret.v = ((call.to_date.t - call.from_date.t) \div 60)
                     \div Duration(call.granularity)
       /\ ret.v * Duration(call.granularity) * 60
             <= call.to_date.t - call.from_date.t
       /\ call.to_date.t - call.from_date.t
             < (ret.v + 1) * Duration(call.granularity) * 60
       /\ (/\ call.from_date = Date(0)
           /\ call.to_date = Date(Day)
           /\ call.granularity = "H1") => ret.v = 24

C8_Witness ==
    /\ IsCalc
    /\ Done
    /\ call.from_date = Date(0)
    /\ call.to_date = Date(Day)
    /\ call.granularity = "H2"
    /\ ret = Int_(12)

\* C9: calculate_candles_between raises the range error whenever from >= to,
\* whatever the granularity, and returns no count.
C9_RangeError ==
    (/\ IsCalc
     /\ Done
     /\ SameFormat
     /\ call.from_date.t >= call.to_date.t)
    => ret = Raise("ValueError", "range")

C9_Witness ==
    /\ IsCalc
    /\ Done
    /\ SameFormat
    /\ call.from_date.t = call.to_date.t
    /\ call.granularity \notin CalendarSet
    /\ ret = Raise("ValueError", "range")

\* the pair of a fetch call is in no known set of instruments
UnknownPair ==
    IF instruments.kind = "list" THEN call.pair_name \notin instruments.v ELSE TRUE

\* C10: fetch_candles with a pair outside the known instruments raises
\* InvalidFunctionArguments and sends no request, whatever the other
\* arguments and also when the directory supplied no instruments.
C10_UnknownPairRejected ==
    (IsFetch /\ Done /\ UnknownPair) =>
        /\ ret.kind = "raise"
        /\ ret.exc = "InvalidFunctionArguments"
        /\ requests = << >>

\* the known instruments are a list and the arguments of the fetch call other
\* than count pass the parameter checks
FetchOtherwiseValid ==
    /\ IsFetch
    /\ Done
    /\ instruments.kind = "list"
    /\ call.pair_name \in instruments.v
    /\ call.granularity \in {"M1", "M5", "M15", "M30", "H1", "H4", "D"}
    /\ call.start.fmt \in {"iso", "date"}
    /\ call.end.fmt \in {"none", "iso", "date"}
    /\ call.price \in {"MBA", "B", "A", "M"}

InvalidArgument(r) == r.kind = "raise" /\ r.exc = "InvalidFunctionArguments"

FirstFailing ==
    IF call.pair_name \notin instruments.v THEN "pair_name"
    ELSE IF call.granularity \notin {"M1", "M5", "M15", "M30", "H1", "H4", "D"}
    THEN "granularity"
    ELSE IF call.start.fmt \notin {"iso", "date"} \/ call.end.fmt = "bad"
    THEN "dates"
    ELSE IF call.price \notin {"MBA", "B", "A", "M"} THEN "price"
    ELSE IF call.count < 1 \/ call.count > CANDLE_COUNT THEN "count"
    ELSE "none"

\* C12: fetch_candles checks pair, granularity, dates, price and count in
\* that order; the first failing check is the one reported, every failing
\* check raises InvalidFunctionArguments, and a request is sent only when
\* all five pass.
C12_ChecksInOrder ==
    (IsFetch /\ Done /\ instruments.kind = "list") =>
        IF FirstFailing = "none"
        THEN Len(requests) = 1
        ELSE ret = Raise("InvalidFunctionArguments", FirstFailing) /\ requests = << >>

\* C13: once the checks pass, a failed transport call or a response that is
\* not ok raises RequestError, an ok response without candles raises
\* NullCandles, and an ok response with candles, also an empty list, returns
\* that list unchanged.
C13_OutcomeFollowsTransport ==
    (IsFetch /\ Done /\ Len(answers) = 1) =>
        IF answers[1].kind = "exception" \/ ~answers[1].ok
        THEN ret.kind = "raise" /\ ret.exc = "RequestError"
        ELSE IF ~answers[1].hasCandles
        THEN ret.kind = "raise" /\ ret.exc = "NullCandles"
        ELSE ret = List(answers[1].candles)

MultiWindow == Countable /\ TotalCount > CANDLE_COUNT

\* C15: in the loop a window whose fetch fails adds nothing: the accumulator
\* and the cursor stay as they were and the loop goes on instead of raising.
C15_FailedWindowSkipped ==
    [][(/\ pc = "loop"
        /\ Len(answers') = Len(answers) + 1
        /\ Failed(answers'[Len(answers')]))
       => (/\ candles' = candles
           /\ from_date' = from_date
           /\ ret'.kind # "raise")]_vars

\* C16: in the loop, once the cursor has reached or passed to_date after a
\* window no further fetch is made, whatever count remains; a further fetch
\* is made only while count is positive and the cursor is before to_date.
C16_StopsAtEnd ==
    [][(MultiWindow /\ fetches >= 1 /\ call' = call)
       => (/\ from_date.t >= to_date.t => fetches' = fetches
           /\ fetches' > fetches =>
                 /\ count > 0
                 /\ from_date.aware = to_date.aware
                 /\ from_date.t < to_date.t)]_vars

C16_Witness ==
    /\ MultiWindow
    /\ Done
    /\ fetches = 1
    /\ from_date.t >= to_date.t
    /\ count >= 1
    /\ ret = List(candles)

Min(a, b) == IF a < b THEN a ELSE b

\* the windows a count needs: the count over CANDLE_COUNT, rounded up
MaxFetches == (TotalCount + CANDLE_COUNT - 1) \div CANDLE_COUNT

\* C17: a collect run ends whatever the windows give: every turn of the loop
\* makes one fetch, a turn that does not raise takes the window size off the
\* count, a run makes at most MaxFetches fetches, and a run that is not done
\* can always take its next step.
C17_Terminates ==
    /\ [](Countable => fetches <= MaxFetches)
    /\ []((pc = "single" \/ pc = "loop") => ENABLED (CollectSingle \/ CollectWindow))
    /\ [][pc = "loop"
          => (/\ fetches' = fetches + 1
              /\ ret'.kind # "raise" =>
                    /\ count' = count - Min(count, CANDLE_COUNT)
                    /\ count' < count
              /\ pc' = "loop" => count' > 0)]_vars

C17_Witness ==
    /\ Countable
    /\ Done
    /\ fetches = MaxFetches
    /\ fetches >= 3
    /\ ret.kind = "list"

RECURSIVE SumCounts(_)
SumCounts(k) == IF k = 0 THEN 0 ELSE SumCounts(k - 1) + requests[k].count

\* C18: every fetch of a collect run asks for a count in 1..CANDLE_COUNT and
\* so passes the checks of fetch_candles; the counts of a run add up to at
\* most the total, and to the total when the run returns without the early
\* stop.
C18_CountsWithinTotal ==
    Countable =>
        /\ Len(requests) = fetches
        /\ \A i \in 1..Len(requests) :
              /\ requests[i].hasCount
              /\ requests[i].count >= 1
              /\ requests[i].count <= CANDLE_COUNT
        /\ SumCounts(Len(requests)) <= TotalCount
        /\ (Done /\ ret.kind = "list" /\ from_date.t < to_date.t)
              => SumCounts(Len(requests)) = TotalCount

C18_Witness ==
    /\ Countable
    /\ Done
    /\ ret.kind = "list"
    /\ from_date.t < to_date.t
    /\ Len(requests) >= 2
    /\ requests[Len(requests)].count < CANDLE_COUNT
    /\ SumCounts(Len(requests)) = TotalCount

\* C19: a collect call with a known pair, a valid price, a granularity that
\* passes its check and from < to makes at least one fetch and does not
\* return None.
C19_ValidGranularityFetches ==
    (/\ IsCollect
     /\ Done
     /\ ValidArgs
     /\ call.date_from.t < call.date_to.t)
    => (fetches >= 1 /\ ret # None)

====
